---------------------------- MODULE Spec2Model ----------------------------
(***************************************************************************)
(* Data-preparation pipeline of the saliency model (src/data.py) and the   *)
(* inference loop that drives it (src/main.py: test_model).                *)
(*                                                                         *)
(* The module holds one specification per component:                       *)
(*   SpecCheck  _check_consistency as the dataset loaders call it          *)
(*   SpecPart   _get_random_indices and the MIT1003 / CAT2000 partitions   *)
(*   SpecGeom   _resize_image, _pad_image / _np_pad_image, _crop_image     *)
(*   SpecVideo  _fetch_dataset batching and the test_model file loop       *)
(*   SpecFiles  _get_file_list                                             *)
(*   SpecHelper the pad and crop helpers called with an image of any size  *)
(*   SpecLoad   load_data of the dataset classes and _fetch_dataset         *)
(* Every specification leaves the variables of the other components at     *)
(* their idle values.                                                      *)
(***************************************************************************)
EXTENDS Integers, Sequences, FiniteSets, TLC

VARIABLES
  \* ---- _check_consistency (SpecCheck)
  list_x,          \* stimulus paths, as _get_file_list returned them
  list_y,          \* ground-truth paths, as _get_file_list returned them
  n_total_files,   \* the expected count handed to _check_consistency
  zip_consumed,    \* how many pairs of the zip iterator have been consumed
  check_result,    \* "pending", "passed", or the assertion message raised
  \* ---- partitions (SpecPart)
  prng,            \* the draw sequence RandomState(42) yields, as [a, b]
  mit_runs,        \* results of the MIT1003.load_data calls made so far
  cat_runs,        \* results of the CAT2000.load_data calls made so far
  \* ---- geometry (SpecGeom)
  is_numpy,        \* TRUE: array path (video frames), FALSE: tensor path
  original_size,   \* <<height, width>> of the decoded image or frame
  target_size,     \* <<height, width>> the model works on
  pre_pc,          \* "input", "preprocessed", "resize_error", "pad_error"
  resized,         \* what the shrink-to-fit _resize_image returned
  padding,         \* [top, bottom, left, right] computed by the pad step
  padded,          \* <<height, width>> after the pad step
  post_pc,         \* "map", "postprocessed" or "resize_error"
  grown,           \* what the grow-to-cover _resize_image returned
  crop_offset,     \* <<crop_top, crop_left>> computed by _crop_image
  cropped,         \* <<height, width>> after _crop_image
  \* ---- inference over video files (SpecVideo)
  video_files,     \* per file of the run, the number of frames it decodes to
  file_idx,        \* 1-based position of test_model's for loop
  test_pc,         \* "next_file", "iterating", "writing", "frames",
                   \* "finished", "crashed"
  crash_cause,     \* "none", or what ended test_model
  attempted,       \* the files whose iterator initialisation was run
  video,           \* frames of the current file, in decode order
  next_frame,      \* how many frames the batch stage has taken from `video`
  prefetch_buffer, \* batches produced ahead of the consumer, oldest first
  saliency_images_list,  \* batches the while loop has received, in order
  saliency_video,  \* the squeezed stack of maps the frame loop iterates
  out,             \* the cv2.VideoWriter of the current file
  outputs,         \* the video writers released so far, in order
  \* ---- _get_file_list (SpecFiles)
  data_path,       \* the path _get_file_list is called with
  path_kind,       \* "dir", "file" or "missing"
  tree,            \* the files under data_path, relative to it
  data_list,       \* the list returned
  files_pc,        \* "call", "returned" or "FileNotFoundError"
  \* ---- load_data of the dataset classes (SpecLoad)
  dataset_class,   \* "SALICON", "MIT1003", "CAT2000" or "TEST"
  train_list,      \* the samples of the training partition, in list order
  valid_list,      \* the samples of the validation partition, in list order
  test_list_x,     \* the files TEST.load_data found
  video_file,      \* the file fed to the video_file placeholder
  load_pc,         \* "call", "returned" or "TypeError"
  train_set,       \* the dataset returned as train_set
  valid_set,       \* the dataset returned as valid_set
  test_set         \* the dataset returned by TEST.load_data

checkVars == <<list_x, list_y, n_total_files, zip_consumed, check_result>>
partVars == <<prng, mit_runs, cat_runs>>
geomVars == <<is_numpy, original_size, target_size, pre_pc, resized, padding,
              padded, post_pc, grown, crop_offset, cropped>>

videoVars == <<video_files, file_idx, test_pc, crash_cause, attempted, video,
               next_frame, prefetch_buffer, saliency_images_list,
               saliency_video, out, outputs>>
fileVars == <<data_path, path_kind, tree, data_list, files_pc>>

loadVars == <<dataset_class, train_list, valid_list, test_list_x, video_file,
              load_pc, train_set, valid_set, test_set>>

vars == <<checkVars, partVars, geomVars, videoVars, fileVars, loadVars>>

-----------------------------------------------------------------------------
(* Strings.  TLC gives Len, \o and SubSeq on strings; a character is a     *)
(* string of length one.                                                   *)

CharAt(s, i) == SubSeq(s, i, i)

\* The characters the modelled paths use, in ascending code-point order.
Alphabet == "-./0123456789ABCDEFGHIJKLMNOPQRSTUVWXYZ_abcdefghijklmnopqrstuvwxyz"

Max(S) == CHOOSE m \in S : \A k \in S : k <= m
Min(S) == CHOOSE m \in S : \A k \in S : m <= k

\* str.rfind(c) + 1: the 1-based position of the last c in s, 0 when absent.
RFind(s, c) ==
  LET hits == {i \in 1..Len(s) : CharAt(s, i) = c}
  IN IF hits = {} THEN 0 ELSE Max(hits)

\* os.path.basename: what follows the last "/".
basename(p) == SubSeq(p, RFind(p, "/") + 1, Len(p))

\* os.path.splitext(p)[0]: the extension starts at the last dot, unless that
\* dot is before the last "/" or only dots precede it in the file name.
splitext(p) ==
  LET sepIndex == RFind(p, "/")
      dotIndex == RFind(p, ".")
  IN IF dotIndex > sepIndex
        /\ \E i \in (sepIndex + 1)..(dotIndex - 1) : CharAt(p, i) # "."
     THEN SubSeq(p, 1, dotIndex - 1)
     ELSE p

\* str.replace(sub, ""): drops the occurrences of sub, scanning left to right.
RECURSIVE replace(_, _)
replace(s, sub) ==
  IF Len(s) < Len(sub) THEN s
  ELSE IF SubSeq(s, 1, Len(sub)) = sub
       THEN replace(SubSeq(s, Len(sub) + 1, Len(s)), sub)
       ELSE CharAt(s, 1) \o replace(SubSeq(s, 2, Len(s)), sub)

\* The code point order of two characters, by their place in Alphabet.
Ord(c) == CHOOSE i \in 1..Len(Alphabet) : CharAt(Alphabet, i) = c

\* Python's str < str: the first differing character decides, a proper prefix
\* is smaller.
StrLess(a, b) ==
  LET m == Min({Len(a), Len(b)})
      diff == {i \in 1..m : CharAt(a, i) # CharAt(b, i)}
  IN IF diff = {} THEN Len(a) < Len(b)
     ELSE Ord(CharAt(a, Min(diff))) < Ord(CharAt(b, Min(diff)))

\* The list left in the order it was collected.
sort_skipped(collected) == collected

\* list.sort() on a list of strings: insertion into an ascending list.
RECURSIVE sort(_)
Insert(sorted, e) ==
  LET before == {i \in 1..Len(sorted) : ~StrLess(e, sorted[i])}
      k == IF before = {} THEN 0 ELSE Max(before)
  IN SubSeq(sorted, 1, k) \o <<e>> \o SubSeq(sorted, k + 1, Len(sorted))
sort(collected) ==
  IF collected = <<>> THEN <<>>
  ELSE Insert(sort(SubSeq(collected, 1, Len(collected) - 1)),
              collected[Len(collected)])

\* Some enumeration of a finite set, as a sequence.
RECURSIVE SetToSeq(_)
SetToSeq(S) ==
  IF S = {} THEN <<>>
  ELSE LET e == CHOOSE e \in S : TRUE IN <<e>> \o SetToSeq(S \ {e})

-----------------------------------------------------------------------------
(* _check_consistency, data.py 610-627                                     *)

\* Bounds of the consistency model.
MaxCount == 3

StimuliPool == {"x/img_001.jpg", "x/img_002.jpg", "x/img_003.jpeg"}
SaliencyPool == {"y/img_001_fixMap.png", "y/img_002_fixMap.png",
                 "y/img_002_fixPts.png", "y/img_004.png"}

\* The reduced name the loop compares: lines 622-625.
file_name(entry) ==
  replace(replace(splitext(basename(entry)), "_fixMap"), "_fixPts")

\* zip(list_x, list_y): pairs up to the shorter list.
zip(xs, ys) ==
  [i \in 1..Min({Len(xs), Len(ys)}) |-> <<xs[i], ys[i]>>]

\* What an iterator still yields after `consumed` items were taken from it.
Remaining(pairs, consumed) == SubSeq(pairs, consumed + 1, Len(pairs))


\* CountAssertion with the comparison loosened to "at least".
CountAssertionAtLeast(listed, expected) == Len(listed) >= expected

\* Line 619: the length of the materialised argument against the expected count.
CountAssertion(listed, expected) == Len(listed) = expected

\* Lines 622-627: the names of one tuple reduce to a single string.
NamesAgree(file_tuple) ==
  Cardinality({file_name(file_tuple[k]) : k \in 1..Len(file_tuple)}) = 1

\* Line 619, list(zipped_file_lists): the position of the zip iterator after
\* list() has drawn every pair from it.
ConsumedByList(pairs, consumed) == Len(pairs)

\* _check_consistency(zipped_file_lists, n_total_files) on a zip iterator over
\* `pairs`: the assertion message raised, or "passed".
_check_consistency(pairs, expected) ==
  LET listed == Remaining(pairs, 0)
      looped == Remaining(pairs, ConsumedByList(pairs, 0))
  IN IF ~CountAssertion(listed, expected) THEN "Files are missing"
     ELSE IF \E i \in 1..Len(looped) : ~NamesAgree(looped[i])
          THEN "File name mismatch"
          ELSE "passed"

\* The file lists a loader holds: _get_file_list returns them sorted, non-empty.
FileLists(pool) == {sort(SetToSeq(S)) : S \in SUBSET pool \ {{}}}

CheckInit ==
  /\ list_x \in FileLists(StimuliPool)
  /\ list_y \in FileLists(SaliencyPool)
  /\ n_total_files \in 0..MaxCount
  /\ zip_consumed = 0
  /\ check_result = "pending"

CheckIdle ==
  /\ list_x = <<>>
  /\ list_y = <<>>
  /\ n_total_files = 0
  /\ zip_consumed = 0
  /\ check_result = "pending"

\* load_data of SALICON / MIT1003 / CAT2000 up to its consistency check:
\* _check_consistency(zip(list_x, list_y), n).
load_data_check ==
  /\ check_result = "pending"
  /\ LET pairs == zip(list_x, list_y)
     IN /\ check_result' = _check_consistency(pairs, n_total_files)
        /\ zip_consumed' = ConsumedByList(pairs, 0)
  /\ UNCHANGED <<list_x, list_y, n_total_files>>
  /\ UNCHANGED <<partVars, geomVars, videoVars, fileVars, loadVars>>

CheckNext == load_data_check

CheckDone == check_result # "pending"

\* Some stimulus / ground-truth pair of the zip reduces to two different names.
SomePairMismatches ==
  \E i \in 1..Min({Len(list_x), Len(list_y)}) :
     file_name(list_x[i]) # file_name(list_y[i])

\* C1: called with zip(list_x, list_y) and a matching expected count, the check
\* fails with the name-mismatch error whenever some pair does not reduce to an
\* identical string.
C1_NameMismatchRaised ==
  (CheckDone /\ Min({Len(list_x), Len(list_y)}) = n_total_files
     /\ SomePairMismatches)
    => check_result = "File name mismatch"

\* C2 as stated: the count-mismatch error is raised exactly when the combined
\* length of the two lists differs from n_total_files.
C2_CombinedCount ==
  CheckDone =>
    (check_result = "Files are missing"
       <=> Len(list_x) + Len(list_y) # n_total_files)

\* C2 amended: the count-mismatch error is raised exactly when the number of
\* stimulus / ground-truth pairs (the length of the zip, i.e. of the shorter
\* list) differs from n_total_files; one correctly named pair with
\* n_total_files = 1 passes.
C2_PairCount ==
  CheckDone =>
    /\ check_result = "Files are missing"
         <=> Min({Len(list_x), Len(list_y)}) # n_total_files
    /\ (Len(list_x) = 1 /\ Len(list_y) = 1 /\ n_total_files = 1
          /\ ~SomePairMismatches) => check_result = "passed"

C2_OnePairPasses ==
  /\ CheckDone
  /\ list_x = <<"x/img_001.jpg">>
  /\ list_y = <<"y/img_001_fixMap.png">>
  /\ n_total_files = 1
  /\ check_result = "passed"

\* C3: lists of unequal length never pass the consistency check.
C3_UnequalCountsStop ==
  (CheckDone /\ Len(list_x) # Len(list_y)) => check_result # "passed"

-----------------------------------------------------------------------------
(* Partitions: _get_random_indices (data.py 591-607), MIT1003.load_data    *)
(* (102-125), CAT2000.load_data (162-196)                                  *)

\* Bounds: the family of draw sequences and the number of repeated calls.
MaxStreamA == 9
MaxStreamB == 9
MaxRuns == 2

\* Program constants.
MIT1003_size == 1003
MIT1003_n_train == 803
MIT1003_n_valid == 200
CAT2000_size == 2000
CAT2000_block == 100
CAT2000_categories == 20
CAT2000_n_train == 1600
CAT2000_n_valid == 400

\* The k-th bounded draw of a generator seeded with 42, rk_interval(i): a
\* value in 0..i.  The Mersenne Twister is not part of the repository; the
\* model lets the sequence range over a family indexed by stream = [a, b].
Draw(stream, i) ==
  (stream.a * (i \div 2) + stream.b * (i \div 3) + stream.a * stream.b + stream.b)
    % (i + 1)

\* x[i], x[j] = x[j], x[i] on 0-based positions.
Swap(arr, i, j) == [arr EXCEPT ![i + 1] = arr[j + 1], ![j + 1] = arr[i + 1]]

\* RandomState.shuffle: for i in reversed(range(1, n)): swap x[i] with
\* x[rk_interval(i)].  ShuffleRange runs the loop for i = hi down to lo; the
\* range is halved so that the evaluation depth stays logarithmic, and the
\* upper half is evaluated before the lower half starts.
RECURSIVE ShuffleRange(_, _, _, _)
ShuffleRange(arr, lo, hi, stream) ==
  IF lo > hi THEN arr
  ELSE IF lo = hi THEN Swap(arr, lo, Draw(stream, lo))
  ELSE LET mid == (lo + hi) \div 2
           upper == ShuffleRange(arr, mid + 1, hi, stream)
       IN IF Len(upper) >= 0 THEN ShuffleRange(upper, lo, mid, stream)
          ELSE upper

\* np.arange(n)
arange(n) == SubSeq([k \in 1..n |-> k - 1], 1, n)

\* _get_random_indices(list_length): a fresh RandomState(42) shuffles arange.
_get_random_indices(list_length, stream) ==
  ShuffleRange(arange(list_length), 1, list_length - 1, stream)

\* Python's seq[lo:hi] with 0-based bounds; a negative bound counts from the
\* end, and bounds are clamped to the sequence.
PyBound(n, k) == IF k < 0 THEN (IF n + k < 0 THEN 0 ELSE n + k)
                 ELSE (IF k > n THEN n ELSE k)
PySlice(seq, lo, hi) ==
  SubSeq(seq, PyBound(Len(seq), lo) + 1, PyBound(Len(seq), hi))

Range(seq) == {seq[k] : k \in 1..Len(seq)}

\* MIT1003.load_data, lines 117-120 with the slice started one entry early.
MIT1003_valid_excerpt_early(indices) ==
  PySlice(indices, MIT1003_n_train - 1, Len(indices))

\* MIT1003.load_data: excerpt = indices[:self.n_train] (line 109) and
\* excerpt = indices[self.n_train:] (line 117).
MIT1003_train_excerpt(indices) == PySlice(indices, 0, MIT1003_n_train)
MIT1003_valid_excerpt(indices) ==
  PySlice(indices, MIT1003_n_train, Len(indices))

\* np.tile(base, reps)
tile(base, reps) ==
  [k \in 1..(Len(base) * reps) |-> base[((k - 1) % Len(base)) + 1]]

\* Lines 174-175 / 187-188: excerpt[idx] = excerpt[idx] + idx // ratio * 100.
AddCategoryOffsets(excerpt, ratio) ==
  [k \in 1..Len(excerpt) |->
     excerpt[k] + ((k - 1) \div ratio) * CAT2000_block]

\* CAT2000.load_data with the validation offsets taken from the front of the
\* shuffled block.
CAT2000_valid_excerpt_front(indices) ==
  LET ratio == (CAT2000_n_valid * CAT2000_block) \div CAT2000_size
  IN AddCategoryOffsets(tile(PySlice(indices, 0, ratio), CAT2000_categories),
                        ratio)

\* CAT2000.load_data, lines 171-175 and 184-188.
CAT2000_train_excerpt(indices) ==
  LET ratio == (CAT2000_n_train * CAT2000_block) \div CAT2000_size
  IN AddCategoryOffsets(tile(PySlice(indices, 0, ratio), CAT2000_categories),
                        ratio)
CAT2000_valid_excerpt(indices) ==
  LET ratio == (CAT2000_n_valid * CAT2000_block) \div CAT2000_size
  IN AddCategoryOffsets(
       tile(PySlice(indices, 0 - ratio, Len(indices)), CAT2000_categories),
       ratio)

Streams == [a : 0..MaxStreamA, b : 0..MaxStreamB]

PartInit ==
  /\ prng \in Streams
  /\ mit_runs = <<>>
  /\ cat_runs = <<>>

PartIdle ==
  /\ prng = [a |-> 0, b |-> 0]
  /\ mit_runs = <<>>
  /\ cat_runs = <<>>

\* MIT1003.load_data: the shuffled indices and the two excerpts it loads.
MIT1003_load_data ==
  /\ Len(mit_runs) < MaxRuns
  /\ LET indices == _get_random_indices(MIT1003_size, prng)
     IN mit_runs' = Append(mit_runs,
                           [indices |-> indices,
                            train |-> MIT1003_train_excerpt(indices),
                            valid |-> MIT1003_valid_excerpt(indices)])
  /\ UNCHANGED <<prng, cat_runs>>
  /\ UNCHANGED <<checkVars, geomVars, videoVars, fileVars, loadVars>>

\* CAT2000.load_data: the shuffled block offsets and the two excerpts.
CAT2000_load_data ==
  /\ Len(cat_runs) < MaxRuns
  /\ LET indices == _get_random_indices(CAT2000_block, prng)
     IN cat_runs' = Append(cat_runs,
                           [indices |-> indices,
                            train |-> CAT2000_train_excerpt(indices),
                            valid |-> CAT2000_valid_excerpt(indices)])
  /\ UNCHANGED <<prng, mit_runs>>
  /\ UNCHANGED <<checkVars, geomVars, videoVars, fileVars, loadVars>>

PartNext == MIT1003_load_data \/ CAT2000_load_data

IsPermutationOf(seq, n) == Len(seq) = n /\ Range(seq) = 0..(n - 1)

\* C4: in every MIT1003.load_data call the shuffled index array is a
\* permutation of [0, 1003); the training indices are its first 803 entries
\* and the validation indices the remainder; the two are disjoint, their union
\* is [0, 1003), their sizes are 803 and 200; and repeated calls yield the
\* same index sets.
C4_SeededRandomPartition ==
  \A r \in 1..Len(mit_runs) :
    LET run == mit_runs[r]
    IN /\ IsPermutationOf(run.indices, MIT1003_size)
       /\ run.train = SubSeq(run.indices, 1, MIT1003_n_train)
       /\ run.valid = SubSeq(run.indices, MIT1003_n_train + 1, MIT1003_size)
       /\ Range(run.train) \cap Range(run.valid) = {}
       /\ Range(run.train) \cup Range(run.valid) = 0..(MIT1003_size - 1)
       /\ Len(run.train) = MIT1003_n_train
       /\ Cardinality(Range(run.train)) = MIT1003_n_train
       /\ Len(run.valid) = MIT1003_n_valid
       /\ Cardinality(Range(run.valid)) = MIT1003_size - MIT1003_n_train
       /\ run = mit_runs[1]

\* Two MIT1003.load_data calls were made on a sequence that really shuffles.
C4_TwoShuffledRuns ==
  /\ Len(mit_runs) = 2
  /\ mit_runs[1].indices # arange(MIT1003_size)
  /\ mit_runs[1].train # SubSeq(arange(MIT1003_size), 1, MIT1003_n_train)

InBlock(S, c) ==
  {i \in S : CAT2000_block * c <= i /\ i < CAT2000_block * (c + 1)}
BlockOffsets(S, c) == {i - CAT2000_block * c : i \in InBlock(S, c)}

\* C5: in every CAT2000.load_data call each of the 20 category blocks
\* [100c, 100c + 100) contributes exactly 80 training and exactly 20
\* validation indices, the within-block offsets are the same in every
\* category, no index is in both sets, and the two sets cover [0, 2000).
C5_CategoryInterleaved ==
  \A r \in 1..Len(cat_runs) :
    LET train == Range(cat_runs[r].train)
        valid == Range(cat_runs[r].valid)
    IN /\ Len(cat_runs[r].train) = CAT2000_n_train
       /\ Len(cat_runs[r].valid) = CAT2000_n_valid
       /\ \A c \in 0..(CAT2000_categories - 1) :
            /\ Cardinality(InBlock(train, c)) = 80
            /\ Cardinality(InBlock(valid, c)) = 20
            /\ BlockOffsets(train, c) = BlockOffsets(train, 0)
            /\ BlockOffsets(valid, c) = BlockOffsets(valid, 0)
       /\ train \cap valid = {}
       /\ train \cup valid = 0..(CAT2000_size - 1)

\* A CAT2000.load_data call was made whose training offsets are not simply
\* the first 80 of each block.
C5_ShuffledBlocks ==
  /\ Len(cat_runs) >= 1
  /\ BlockOffsets(Range(cat_runs[1].train), 0) # 0..79
  /\ BlockOffsets(Range(cat_runs[1].train), 19) # {}

-----------------------------------------------------------------------------
(* Geometry: _resize_image (data.py 402-470), _pad_image (472-500),        *)
(* _np_pad_image (502-517), _crop_image (520-557)                          *)

\* Bound: the sizes enumerated exhaustively are 1..MaxDim per axis.
MaxDim == 8

\* Sizes named by the round-trip examples: original and model target.
ExampleSizes ==
  {<<<<480, 640>>, <<240, 320>>>>, <<<<500, 500>>, <<256, 256>>>>}

\* round(num / den) for num >= 0, den > 0, in double precision followed by
\* round-half-to-even: away from a tie the nearest integer; on an exact tie
\* the product may come out a rounding error to either side, so both
\* neighbours are outcomes.
Round(num, den) ==
  LET q == num \div den
      r == num % den
  IN IF 2 * r < den THEN {q}
     ELSE IF 2 * r > den THEN {q + 1}
     ELSE {q, q + 1}

\* target_ratio with the overfull flag ignored: always the minimum.
target_ratio_min(current_size, target, overfull) ==
  LET height_first == target[1] * current_size[2] <= target[2] * current_size[1]
  IN IF height_first THEN <<target[1], current_size[1]>>
     ELSE <<target[2], current_size[2]>>

\* Lines 432-438: the ratio target / current chosen, as <<numerator,
\* denominator>>; maximum when overfull, minimum otherwise.
target_ratio(current_size, target, overfull) ==
  LET height_first == target[1] * current_size[2] <= target[2] * current_size[1]
      height_ratio == <<target[1], current_size[1]>>
      width_ratio == <<target[2], current_size[2]>>
  IN IF overfull
     THEN (IF height_first THEN width_ratio ELSE height_ratio)
     ELSE (IF height_first THEN height_ratio ELSE width_ratio)

\* Lines 445-448 and 455-458: area interpolation when shrinking.  The array
\* path compares against the (width, height) tuple built for cv2 in line 443.
interpolation(current_size, new_size, numpy) ==
  LET compared == IF numpy THEN <<new_size[2], new_size[1]>> ELSE new_size
  IN IF current_size[1] > compared[1] \/ current_size[2] > compared[2]
     THEN "area" ELSE "bicubic"

\* _resize_image(image, target_size, overfull, is_numpy) on the image's size:
\* the set of results, one per rounding outcome.  cv2.resize and
\* tf.image.resize_* reject an output size with a zero axis (ok = FALSE).
_resize_image(current_size, target, overfull, numpy) ==
  LET ratio == target_ratio(current_size, target, overfull)
  IN {[size |-> <<h, w>>,
       interpolation |-> interpolation(current_size, <<h, w>>, numpy),
       ok |-> h > 0 /\ w > 0] :
        h \in Round(current_size[1] * ratio[1], ratio[2]),
        w \in Round(current_size[2] * ratio[1], ratio[2])}

Floor2(x) == x \div 2
Ceil2(x) == 0 - ((0 - x) \div 2)

\* pad_amounts with floor on both sides of each axis.
pad_amounts_floor(current_size, target) ==
  [top |-> Floor2(target[1] - current_size[1]),
   bottom |-> Floor2(target[1] - current_size[1]),
   left |-> Floor2(target[2] - current_size[2]),
   right |-> Floor2(target[2] - current_size[2])]

\* Lines 489-497 / 505-513: the padding amounts.
pad_amounts(current_size, target) ==
  [top |-> Floor2(target[1] - current_size[1]),
   bottom |-> Ceil2(target[1] - current_size[1]),
   left |-> Floor2(target[2] - current_size[2]),
   right |-> Ceil2(target[2] - current_size[2])]

\* tf.pad / np.pad (lines 498, 514): the padded size; a negative amount is
\* rejected by both.
pad_ok(amounts) ==
  amounts.top >= 0 /\ amounts.bottom >= 0 /\ amounts.left >= 0 /\ amounts.right >= 0
pad_size(current_size, amounts) ==
  <<current_size[1] + amounts.top + amounts.bottom,
    current_size[2] + amounts.left + amounts.right>>

\* Lines 542-550: the crop offsets.
crop_offsets(current_size, target) ==
  <<Floor2(current_size[1] - target[1]), Floor2(current_size[2] - target[2])>>

\* len(seq[lo:hi]) for a sequence of length n.
PySliceLen(n, lo, hi) ==
  IF PyBound(n, hi) > PyBound(n, lo) THEN PyBound(n, hi) - PyBound(n, lo) ELSE 0

\* Lines 552-555: image[crop_top:border_bottom, crop_left:border_right].
crop_size(current_size, offsets, target) ==
  <<PySliceLen(current_size[1], offsets[1], offsets[1] + target[1]),
    PySliceLen(current_size[2], offsets[2], offsets[2] + target[2])>>

NoSize == <<0, 0>>
NoResize == [size |-> NoSize, interpolation |-> "none", ok |-> FALSE]
NoPadding == [top |-> 0, bottom |-> 0, left |-> 0, right |-> 0]

Dims == 1..MaxDim
SizePairs == ((Dims \X Dims) \X (Dims \X Dims)) \cup ExampleSizes

GeomStart ==
  /\ pre_pc = "input"
  /\ resized = NoResize
  /\ padding = NoPadding
  /\ padded = NoSize
  /\ post_pc = "map"
  /\ grown = NoResize
  /\ crop_offset = NoSize
  /\ cropped = NoSize

GeomInit ==
  /\ is_numpy \in BOOLEAN
  /\ \E pair \in SizePairs : original_size = pair[1] /\ target_size = pair[2]
  /\ GeomStart

GeomIdle ==
  /\ is_numpy = FALSE
  /\ original_size = NoSize
  /\ target_size = NoSize
  /\ GeomStart

\* _parse_image_files lines 389-392 / _parse_video_files lines 345-348:
\* shrink-to-fit resize of the decoded image, then symmetric padding.
Preprocess ==
  /\ pre_pc = "input"
  /\ \E res \in _resize_image(original_size, target_size, FALSE, is_numpy) :
       /\ resized' = res
       /\ IF res.ok /\ pad_ok(pad_amounts(res.size, target_size))
          THEN /\ padding' = pad_amounts(res.size, target_size)
               /\ padded' = pad_size(res.size, padding')
               /\ pre_pc' = "preprocessed"
          ELSE /\ UNCHANGED <<padding, padded>>
               /\ pre_pc' = IF res.ok THEN "pad_error" ELSE "resize_error"
  /\ UNCHANGED <<is_numpy, original_size, target_size, post_pc, grown,
                 crop_offset, cropped>>
  /\ UNCHANGED <<checkVars, partVars, videoVars, fileVars, loadVars>>

\* postprocess_saliency_map lines 285-286 / test_model lines 227-230: the
\* predicted map, of the model's size, is resized grow-to-cover toward the
\* original size and cropped to it.
Postprocess ==
  /\ post_pc = "map"
  /\ \E res \in _resize_image(target_size, original_size, TRUE, is_numpy) :
       /\ grown' = res
       /\ IF res.ok
          THEN /\ crop_offset' = crop_offsets(res.size, original_size)
               /\ cropped' = crop_size(res.size, crop_offset', original_size)
               /\ post_pc' = "postprocessed"
          ELSE /\ UNCHANGED <<crop_offset, cropped>>
               /\ post_pc' = "resize_error"
  /\ UNCHANGED <<is_numpy, original_size, target_size, pre_pc, resized,
                 padding, padded>>
  /\ UNCHANGED <<checkVars, partVars, videoVars, fileVars, loadVars>>

GeomNext == Preprocess \/ Postprocess

\* C6: the shrink-to-fit size is at most the target in both axes, and the pad
\* step brings it to exactly target_size: on each axis the top/left amount is
\* floor(pad/2), the bottom/right amount ceil(pad/2), both are non-negative,
\* they sum to pad, and both are zero when pad is zero.
C6_ShrinkThenPad ==
  /\ pre_pc # "input" =>
       /\ resized.size[1] <= target_size[1]
       /\ resized.size[2] <= target_size[2]
       /\ pre_pc # "pad_error"
  /\ pre_pc = "preprocessed" =>
       LET pad_vertical == target_size[1] - resized.size[1]
           pad_horizontal == target_size[2] - resized.size[2]
       IN /\ padded = target_size
          /\ padding.top >= 0 /\ padding.left >= 0
          /\ padding.bottom - padding.top \in {0, 1}
          /\ padding.right - padding.left \in {0, 1}
          /\ padding.top + padding.bottom = pad_vertical
          /\ padding.left + padding.right = pad_horizontal
          /\ pad_vertical = 0 => (padding.top = 0 /\ padding.bottom = 0)
          /\ pad_horizontal = 0 => (padding.left = 0 /\ padding.right = 0)

\* An image was shrunk and padded by an odd amount on one axis and by nothing
\* on the other.
C6_OddPadding ==
  /\ pre_pc = "preprocessed"
  /\ padding.top + 1 = padding.bottom
  /\ padding.left = 0 /\ padding.right = 0
  /\ resized.size[1] < original_size[1]
  /\ padded = target_size

\* C7: a map of the model's size, resized grow-to-cover toward the original
\* size and cropped, has exactly the original size: the grown size is at
\* least the original in both axes and the crop window
\* [crop_top, crop_top + h) x [crop_left, crop_left + w) lies inside it.
C7_GrowThenCrop ==
  post_pc # "map" =>
    /\ post_pc = "postprocessed"
    /\ grown.size[1] >= original_size[1]
    /\ grown.size[2] >= original_size[2]
    /\ crop_offset[1] >= 0 /\ crop_offset[2] >= 0
    /\ crop_offset[1] + original_size[1] <= grown.size[1]
    /\ crop_offset[2] + original_size[2] <= grown.size[2]
    /\ cropped = original_size

\* The 480x640 example was post-processed from a 240x320 map.
C7_ExampleRoundTrip ==
  /\ post_pc = "postprocessed"
  /\ original_size = <<480, 640>>
  /\ target_size = <<240, 320>>
  /\ cropped = <<480, 640>>

-----------------------------------------------------------------------------
(* Inference: _fetch_dataset (data.py 295-324), _parse_video_files         *)
(* (333-359), test_model (main.py 189-236)                                 *)

\* Bounds: the number of video files of a run and the longest video.
MaxVideos == 2
MaxFrames == 257

\* Program constants: dataset.batch(100), dataset.prefetch(2).
BatchSize == 100
PrefetchDepth == 2

\* The frame counts enumerated: a file that cannot be decoded (0), short
\* videos, and videos around the batch size.
FrameCounts ==
  {0, 1, 2, BatchSize - 1, BatchSize, BatchSize + 1, 2 * BatchSize, MaxFrames}

\* All sequences over S of length 1..n.
SeqsUpTo(S, n) == UNION {[1..k -> S] : k \in 1..n}

\* np.concatenate of a list of batches.
RECURSIVE concatenate(_)
concatenate(batches) ==
  IF batches = <<>> THEN <<>>
  ELSE Head(batches) \o concatenate(Tail(batches))

\* _parse_video_files: the frames read until cap.read() fails, stacked in
\* read order; np.stack of an empty list raises.
decode_ok(n_frames) == n_frames > 0
decoded_frames(n_frames) == arange(n_frames)

\* dataset.batch(100): the batch that starts after `position` frames.
batch(frames, position) ==
  SubSeq(frames, position + 1, Min({position + BatchSize, Len(frames)}))

\* The prefetch buffer hands out its newest batch.
dequeue_newest(buffer) ==
  [batch |-> buffer[Len(buffer)], rest |-> SubSeq(buffer, 1, Len(buffer) - 1)]

\* dataset.prefetch(2): the consumer receives the oldest buffered batch.
dequeue(buffer) == [batch |-> Head(buffer), rest |-> Tail(buffer)]

NoVideo == [first_axis |-> "none", maps |-> <<>>]
NoWriter == [file |-> 0, state |-> "none", frame_size |-> "none",
             written |-> <<>>]

VideoStart ==
  /\ file_idx = 1
  /\ test_pc = "next_file"
  /\ crash_cause = "none"
  /\ attempted = {}
  /\ video = <<>>
  /\ next_frame = 0
  /\ prefetch_buffer = <<>>
  /\ saliency_images_list = <<>>
  /\ saliency_video = NoVideo
  /\ out = NoWriter
  /\ outputs = <<>>

VideoInit ==
  /\ video_files \in SeqsUpTo(FrameCounts, MaxVideos)
  /\ VideoStart

VideoIdle ==
  /\ video_files = <<>>
  /\ VideoStart

\* main.py 192-195: the for loop takes the next file and runs init_op, which
\* decodes the whole video (_fetch_dataset line 317).  A decode error is not
\* an OutOfRangeError and leaves test_model.
run_init_op ==
  /\ test_pc = "next_file"
  /\ file_idx <= Len(video_files)
  /\ attempted' = attempted \cup {file_idx}
  /\ IF decode_ok(video_files[file_idx])
     THEN /\ video' = decoded_frames(video_files[file_idx])
          /\ test_pc' = "iterating"
          /\ UNCHANGED crash_cause
     ELSE /\ video' = <<>>
          /\ test_pc' = "crashed"
          /\ crash_cause' = "decode"
  /\ next_frame' = 0
  /\ prefetch_buffer' = <<>>
  /\ saliency_images_list' = <<>>
  /\ UNCHANGED <<video_files, file_idx, saliency_video, out, outputs>>
  /\ UNCHANGED <<checkVars, partVars, geomVars, fileVars, loadVars>>

\* data.py 321-322: the pipeline batches ahead of the consumer while fewer
\* than 2 batches are buffered.
prefetch ==
  /\ test_pc = "iterating"
  /\ Len(prefetch_buffer) < PrefetchDepth
  /\ next_frame < Len(video)
  /\ prefetch_buffer' = Append(prefetch_buffer, batch(video, next_frame))
  /\ next_frame' = next_frame + Len(batch(video, next_frame))
  /\ UNCHANGED <<video_files, file_idx, test_pc, crash_cause, attempted, video,
                 saliency_images_list, saliency_video, out, outputs>>
  /\ UNCHANGED <<checkVars, partVars, geomVars, fileVars, loadVars>>

\* main.py 198-201: sess.run returns the next batch.
run_next_batch ==
  /\ test_pc = "iterating"
  /\ prefetch_buffer # <<>>
  /\ saliency_images_list' =
       Append(saliency_images_list, dequeue(prefetch_buffer).batch)
  /\ prefetch_buffer' = dequeue(prefetch_buffer).rest
  /\ UNCHANGED <<video_files, file_idx, test_pc, crash_cause, attempted, video,
                 next_frame, saliency_video, out, outputs>>
  /\ UNCHANGED <<checkVars, partVars, geomVars, fileVars, loadVars>>

\* main.py 202-203: the stream is exhausted, OutOfRangeError ends the loop.
out_of_range ==
  /\ test_pc = "iterating"
  /\ prefetch_buffer = <<>>
  /\ next_frame = Len(video)
  /\ test_pc' = "writing"
  /\ UNCHANGED <<video_files, file_idx, crash_cause, attempted, video,
                 next_frame, prefetch_buffer, saliency_images_list,
                 saliency_video, out, outputs>>
  /\ UNCHANGED <<checkVars, partVars, geomVars, fileVars, loadVars>>

\* main.py 224: np.squeeze of the stack of n maps, of shape (n, H, W, 1),
\* drops every axis of length 1: the channel axis, and for n = 1 the frame
\* axis too, so that the first axis of the result is the pixel rows of the
\* one map.
squeeze(maps) ==
  [first_axis |-> IF Len(maps) = 1 THEN "rows" ELSE "frames", maps |-> maps]

\* A map as the model returns it: its position in the video, the steps
\* applied to its values so far, and the size it has.
predicted_map(i) == [map |-> i, steps |-> <<>>, size |-> "model"]

\* main.py 225 / data.py 283: scale by 255.
scale(image) == [image EXCEPT !.steps = Append(@, "times_255")]

\* main.py 227-230 / data.py 285-286: _resize_image with overfull = True and
\* _crop_image, both toward the original size.
resize_and_crop(image) ==
  [image EXCEPT !.steps = @ \o <<"resize", "crop">>, !.size = "original"]

\* main.py 232-233 / data.py 288-289: round, then cast to uint8.
round_uint8(image) == [image EXCEPT !.steps = @ \o <<"round", "uint8">>]

\* data.py 283-289: the chain postprocess_saliency_map applies to one map.
postprocess_saliency_map(saliency_map) ==
  round_uint8(resize_and_crop(scale(saliency_map)))

\* main.py 227-233: one pass of the frame loop over a scaled frame.  Line 232
\* rounds `frame`, not the saliency_map that lines 227-230 computed.
written_frame(frame) ==
  LET saliency_map == resize_and_crop(frame)
  IN round_uint8(frame)

\* main.py 205-225: the batches are concatenated, the writer is opened with
\* the frame size of the stack (line 220 replaces the original size of line
\* 219 by saliency_video.shape[2], shape[1]), the stack is squeezed and
\* scaled.
open_writer ==
  /\ test_pc = "writing"
  /\ saliency_video' = squeeze(concatenate(saliency_images_list))
  /\ out' = [file |-> file_idx, state |-> "open", frame_size |-> "model",
             written |-> <<>>]
  /\ test_pc' = "frames"
  /\ UNCHANGED <<video_files, file_idx, crash_cause, attempted, video,
                 next_frame, prefetch_buffer, saliency_images_list, outputs>>
  /\ UNCHANGED <<checkVars, partVars, geomVars, fileVars, loadVars>>

\* main.py 226-235: one pass of `for frame in saliency_video`.  When the
\* frame axis was squeezed away, frame is a one-dimensional pixel row and
\* current_size[1] in _resize_image (data.py 433) raises IndexError.
write_frame ==
  /\ test_pc = "frames"
  /\ Len(out.written) < Len(saliency_video.maps)
  /\ IF saliency_video.first_axis = "rows"
     THEN /\ test_pc' = "crashed"
          /\ crash_cause' = "squeeze"
          /\ UNCHANGED out
     ELSE /\ LET frame ==
                   scale(predicted_map(saliency_video.maps[Len(out.written) + 1]))
             IN out' = [out EXCEPT !.written = Append(@, written_frame(frame))]
          /\ UNCHANGED <<test_pc, crash_cause>>
  /\ UNCHANGED <<video_files, file_idx, attempted, video, next_frame,
                 prefetch_buffer, saliency_images_list, saliency_video,
                 outputs>>
  /\ UNCHANGED <<checkVars, partVars, geomVars, fileVars, loadVars>>

\* main.py 236: the loop is over, out.release(), and the for loop goes on.
release ==
  /\ test_pc = "frames"
  /\ Len(out.written) = Len(saliency_video.maps)
  /\ out' = [out EXCEPT !.state = "released"]
  /\ outputs' = Append(outputs, out')
  /\ file_idx' = file_idx + 1
  /\ test_pc' = IF file_idx = Len(video_files) THEN "finished" ELSE "next_file"
  /\ UNCHANGED <<video_files, crash_cause, attempted, video, next_frame,
                 prefetch_buffer, saliency_images_list, saliency_video>>
  /\ UNCHANGED <<checkVars, partVars, geomVars, fileVars, loadVars>>

VideoNext ==
  \/ run_init_op
  \/ prefetch
  \/ run_next_batch
  \/ out_of_range
  \/ open_writer
  \/ write_frame
  \/ release

RunEnded == test_pc \in {"finished", "crashed"}

\* C9: a decode failure on one file does not end the run: once the run has
\* ended, every file listed after a file that failed to decode has been
\* taken up by the loop.
C9_DecodeFailureIsolated ==
  RunEnded =>
    \A i \in attempted :
      ~decode_ok(video_files[i]) =>
        \A j \in (i + 1)..Len(video_files) : j \in attempted

-----------------------------------------------------------------------------
(* _get_file_list, data.py 560-588                                         *)

\* The files that may exist under the directory, relative to it.
FilePool == {"img.png", "Zed.PNG", "sub/clip.avi", "sub-1/Pic.JpEg",
             "notes.txt", "sub/png", "a.jpg.bak"}

\* Paths that are a single file, whatever their extension.
SingleFiles == {"data/clip.avi", "data/notes.txt"}

UpperCase == "ABCDEFGHIJKLMNOPQRSTUVWXYZ"
LowerCase == "abcdefghijklmnopqrstuvwxyz"

\* str.lower()
RECURSIVE lower(_)
lower(s) ==
  IF s = "" THEN ""
  ELSE LET c == CharAt(s, 1)
           up == {i \in 1..Len(UpperCase) : CharAt(UpperCase, i) = c}
       IN (IF up = {} THEN c ELSE CharAt(LowerCase, Min(up)))
            \o lower(SubSeq(s, 2, Len(s)))

\* str.endswith(tuple)
endswith(s, suffixes) ==
  \E suf \in suffixes :
    Len(s) >= Len(suf) /\ SubSeq(s, Len(s) - Len(suf) + 1, Len(s)) = suf

\* Line 580: the extension test on the file's name.
accepted(file) == endswith(lower(file), {".png", ".jpg", ".jpeg", ".avi"})

\* The orders in which a walk may meet the files of S.
RECURSIVE Orders(_)
Orders(S) ==
  IF S = {} THEN {<<>>}
  ELSE UNION {{<<f>> \o rest : rest \in Orders(S \ {f})} : f \in S}

\* Lines 578-581: the accepted files in the order the walk meets them, each
\* joined to the directory it was found in.
RECURSIVE collect(_, _)
collect(top, walked) ==
  IF walked = <<>> THEN <<>>
  ELSE (IF accepted(basename(Head(walked)))
        THEN <<top \o "/" \o Head(walked)>> ELSE <<>>)
         \o collect(top, Tail(walked))

FilesStart ==
  /\ data_list = <<>>
  /\ files_pc = "call"

FilesInit ==
  /\ \/ path_kind = "dir" /\ data_path = "data" /\ tree \in SUBSET FilePool
     \/ path_kind = "file" /\ data_path \in SingleFiles /\ tree = {}
     \/ path_kind = "missing" /\ data_path = "nowhere" /\ tree = {}
  /\ FilesStart

FilesIdle ==
  /\ data_path = ""
  /\ path_kind = "missing"
  /\ tree = {}
  /\ FilesStart

\* The emptiness test left out: every list is returned.
nothing_found_ignored(found) == FALSE

\* Lines 585-586: `if not data_list` raises FileNotFoundError.
nothing_found(found) == found = <<>>

\* _get_file_list(data_path): the single file, or the accepted files met by
\* os.walk in whatever order the file system lists them; then sorted; an
\* empty list raises FileNotFoundError.
_get_file_list ==
  /\ files_pc = "call"
  /\ \E walked \in Orders(tree) :
       LET collected == IF path_kind = "file" THEN <<data_path>>
                        ELSE collect(data_path, walked)
           sorted == sort(collected)
       IN IF nothing_found(sorted)
          THEN /\ files_pc' = "FileNotFoundError"
               /\ UNCHANGED data_list
          ELSE /\ files_pc' = "returned"
               /\ data_list' = sorted
  /\ UNCHANGED <<data_path, path_kind, tree>>
  /\ UNCHANGED <<checkVars, partVars, geomVars, videoVars, loadVars>>

FilesNext == _get_file_list

\* The files of FilePool whose name ends, ignoring case, in .png, .jpg, .jpeg
\* or .avi.
MatchingPool == {"img.png", "Zed.PNG", "sub/clip.avi", "sub-1/Pic.JpEg"}

\* C10: on a directory the list returned holds exactly the files under it
\* whose name ends, case-insensitively, in .png, .jpg, .jpeg or .avi, each
\* once, in ascending order of the full path string.
C10_SortedMatchingFiles ==
  (files_pc = "returned" /\ path_kind = "dir") =>
    /\ Range(data_list) = {data_path \o "/" \o f : f \in tree \cap MatchingPool}
    /\ Len(data_list) = Cardinality(tree \cap MatchingPool)
    /\ \A i \in 1..Len(data_list) : \A j \in 1..Len(data_list) :
         i < j => StrLess(data_list[i], data_list[j])

\* A directory with matching and non-matching files in several
\* sub-directories was listed.
C10_MixedDirectory ==
  /\ files_pc = "returned"
  /\ path_kind = "dir"
  /\ tree = FilePool
  /\ data_list = <<"data/Zed.PNG", "data/img.png", "data/sub-1/Pic.JpEg",
                   "data/sub/clip.avi">>


\* C11: _get_file_list never returns an empty list: when no file is collected
\* (an empty directory, a directory with only non-matching files, a path that
\* does not exist) it raises FileNotFoundError, and when the path is an
\* existing single file it returns the one-element list holding that path.
C11_NeverEmpty ==
  /\ files_pc = "returned" => data_list # <<>>
  /\ (files_pc # "call"
        /\ (path_kind = "missing"
              \/ (path_kind = "dir" /\ tree \cap MatchingPool = {})))
       => (files_pc = "FileNotFoundError" /\ data_list = <<>>)
  /\ (files_pc # "call" /\ path_kind = "file")
       => (files_pc = "returned" /\ data_list = <<data_path>>)

\* A directory holding only non-matching files was listed and the call raised.
C11_OnlyNonMatching ==
  /\ files_pc = "FileNotFoundError"
  /\ path_kind = "dir"
  /\ tree = {"notes.txt", "sub/png", "a.jpg.bak"}

\* Area interpolation exactly when the new size is smaller than the current
\* size in height or in width.
ShrinkingChoice(current_size, new_size) ==
  IF new_size[1] < current_size[1] \/ new_size[2] < current_size[2]
  THEN "area" ELSE "bicubic"

\* C12: in every call of _resize_image, on the array path and on the tensor
\* path, area interpolation is chosen exactly when the computed new height is
\* smaller than the current height or the computed new width is smaller than
\* the current width, and bicubic interpolation otherwise.
C12_InterpolationChoice ==
  /\ pre_pc # "input" =>
       resized.interpolation = ShrinkingChoice(original_size, resized.size)
  /\ post_pc # "map" =>
       grown.interpolation = ShrinkingChoice(target_size, grown.size)

\* C12 on the tensor path alone.
C12_TensorPathChoice == ~is_numpy => C12_InterpolationChoice

\* The grow ratio s of the post-processing resize as <<numerator, denominator>>.
grow_ratio == target_ratio(target_size, original_size, TRUE)

\* Along one axis: the crop window [offset, offset + length) and the rescaled
\* content region [pad_before * s, (pad_before + content) * s) have their
\* starts and their ends within one pixel of each other (all terms multiplied
\* by the denominator of s).
WindowMatchesContent(offset, length, pad_before, content) ==
  LET num == grow_ratio[1]
      den == grow_ratio[2]
      window_start == offset * den
      window_end == (offset + length) * den
      content_start == pad_before * num
      content_end == (pad_before + content) * num
  IN /\ window_start >= content_start - den
     /\ window_start <= content_start + den
     /\ window_end <= content_end + den
     /\ window_end >= content_end - den

\* C13: when an image was shrunk and padded and the map of the model's size
\* was grown by ratio s and cropped to the original size, the crop window
\* coincides, up to one pixel, with the rescaled content region
\* [pad_top*s, (pad_top+content_h)*s) x [pad_left*s, (pad_left+content_w)*s):
\* no padding row or column remains and no content row or column is cut off.
C13_CropUndoesPadding ==
  (pre_pc = "preprocessed" /\ post_pc = "postprocessed") =>
    /\ WindowMatchesContent(crop_offset[1], original_size[1],
                            padding.top, resized.size[1])
    /\ WindowMatchesContent(crop_offset[2], original_size[2],
                            padding.left, resized.size[2])

-----------------------------------------------------------------------------
(* The pad and crop helpers called on their own (data.py 472-557), with an *)
(* image of any size: original_size is the size of the image passed in and *)
(* target_size the size asked for.                                         *)

\* _pad_image / _np_pad_image (image, target_size): lines 489-498 / 505-515.
\* tf.pad and np.pad raise on a negative amount; nothing else is tested.
call_pad_image ==
  /\ pre_pc = "input"
  /\ padding' = pad_amounts(original_size, target_size)
  /\ IF pad_ok(padding')
     THEN /\ padded' = pad_size(original_size, padding')
          /\ pre_pc' = "padded"
     ELSE /\ padded' = padded
          /\ pre_pc' = "pad_error"
  /\ UNCHANGED <<is_numpy, original_size, target_size, resized, post_pc,
                 grown, crop_offset, cropped>>
  /\ UNCHANGED <<checkVars, partVars, videoVars, fileVars, loadVars>>

\* _crop_image(image, target_size, is_numpy): lines 540-557.  No size is
\* tested; the slice of line 555 follows Python's rules for negative and
\* overlong bounds on both paths and never raises.
call_crop_image ==
  /\ post_pc = "map"
  /\ crop_offset' = crop_offsets(original_size, target_size)
  /\ cropped' = crop_size(original_size, crop_offset', target_size)
  /\ post_pc' = "cropped"
  /\ UNCHANGED <<is_numpy, original_size, target_size, pre_pc, resized,
                 padding, padded, grown>>
  /\ UNCHANGED <<checkVars, partVars, videoVars, fileVars, loadVars>>

HelperInit ==
  /\ is_numpy \in BOOLEAN
  /\ original_size \in Dims \X Dims
  /\ target_size \in Dims \X Dims
  /\ GeomStart

HelperNext == call_pad_image \/ call_crop_image

LargerInSomeAxis(size, target) == size[1] > target[1] \/ size[2] > target[2]
SmallerInSomeAxis(size, target) == size[1] < target[1] \/ size[2] < target[2]

\* The pad half of C14: padding an image larger than the target in some axis
\* ends in an error, and a padded image that is returned has the target size.
C14_PadFailsLoudly ==
  /\ (pre_pc # "input" /\ LargerInSomeAxis(original_size, target_size))
       => pre_pc = "pad_error"
  /\ pre_pc = "padded" => padded = target_size

\* C14: _pad_image / _np_pad_image called with an image larger than the
\* target in some axis and _crop_image called with an image smaller than the
\* target in some axis end in an error and return no image; _crop_image never
\* returns an image whose size differs from target_size.
C14_PreconditionsFailLoudly ==
  /\ C14_PadFailsLoudly
  /\ (post_pc # "map" /\ SmallerInSomeAxis(original_size, target_size))
       => post_pc = "crop_error"
  /\ post_pc = "cropped" => cropped = target_size

-----------------------------------------------------------------------------
(* Claims on the frames test_model writes (main.py 205-236)                *)

\* The for loop is done with file i: it went on to a later file or ended on
\* this one.
LoopLeft(i) ==
  \/ i < file_idx
  \/ i = file_idx /\ test_pc = "crashed"

\* The writer o holds exactly the n frames of file i, in the order of the
\* predicted maps, each of the size the writer was opened with, and was
\* released.
CompleteVideo(o, i, n) ==
  /\ o.file = i
  /\ o.state = "released"
  /\ Len(o.written) = n
  /\ \A f \in 1..Len(o.written) :
       /\ o.written[f].map = f - 1
       /\ o.written[f].size = o.frame_size

\* Every file of at least min_frames decoded frames the loop is done with has
\* a complete output video, and no writer is released before it holds all
\* frames of its file.
FramesWritten(min_frames) ==
  /\ \A i \in 1..Len(video_files) :
       (video_files[i] >= min_frames /\ LoopLeft(i)) =>
         \E k \in 1..Len(outputs) : CompleteVideo(outputs[k], i, video_files[i])
  /\ out.state = "released" => Len(out.written) = video_files[out.file]
  /\ out.state = "open" =>
       /\ Len(out.written) <= video_files[out.file]
       /\ \A f \in 1..Len(out.written) : out.written[f].map = f - 1

\* C15: for every input video of n >= 1 decoded frames test_model writes
\* exactly n frames, frame i computed from predicted map i, each of the width
\* and height the writer was opened with, and the writer is released only
\* after the last frame was written; for n = 1 as well as for n > 100.
C15_EveryFrameWritten == FramesWritten(1)

\* C15 for videos of two frames or more.
C15_SeveralFramesWritten == FramesWritten(2)

\* A 257-frame video was written out and its writer released.
C15_Written257 ==
  \E k \in 1..Len(outputs) :
    /\ CompleteVideo(outputs[k], outputs[k].file, 257)
    /\ video_files[outputs[k].file] = 257

\* The chain of steps every written saliency frame has gone through.
ProcessingChain == <<"times_255", "resize", "crop", "round", "uint8">>

\* C16: every saliency frame written out, image by postprocess_saliency_map
\* and video frame by test_model, is the predicted map scaled by 255, resized
\* grow-to-cover toward the original size, cropped to it, rounded and cast to
\* 8 bit: the written pixels are those of the resized and cropped map.
C16_WrittenFramesProcessed ==
  /\ postprocess_saliency_map(predicted_map(0)).steps = ProcessingChain
  /\ postprocess_saliency_map(predicted_map(0)).size = "original"
  /\ \A f \in 1..Len(out.written) :
       /\ out.written[f].steps = ProcessingChain
       /\ out.written[f].size = "original"

\* The image path alone: postprocess_saliency_map applies the whole chain.
C16_ImageChain ==
  \A f \in 1..Len(out.written) :
    LET processed == postprocess_saliency_map(predicted_map(out.written[f].map))
    IN processed.steps = ProcessingChain /\ processed.size = "original"

-----------------------------------------------------------------------------
(* load_data of the dataset classes (data.py 48-65, 102-125, 162-196,      *)
(* 215-220) and _fetch_dataset (295-324)                                   *)

\* Bound: the number of samples of a corpus.
MaxSamples == 3

TrainingClasses == {"SALICON", "MIT1003", "CAT2000"}

\* The sample lists a partition can hand over: sequences of distinct samples.
SampleLists ==
  {l \in UNION {[1..k -> 1..MaxSamples] : k \in 0..MaxSamples} :
     \A i, j \in 1..Len(l) : l[i] = l[j] => i = j}

VideoFiles == {"clip.avi", "talk.mp4"}

NoDataset == [samples |-> <<>>, shuffled |-> FALSE, bound |-> FALSE]

\* Line 295: def _fetch_dataset(files, target_size, shuffle, video_file,
\* online=False).  The parameters a call leaves without a value; a call that
\* leaves one raises TypeError before the body runs.
missing_parameters(positional, keywords) ==
  {name \in {"files", "target_size", "shuffle", "video_file"} :
     /\ name \notin keywords
     /\ \/ name = "files" /\ Len(positional) < 1
        \/ name = "target_size" /\ Len(positional) < 2
        \/ name = "shuffle" /\ Len(positional) < 3
        \/ name = "video_file" /\ Len(positional) < 4}

\* Lines 311-324: the shuffle and the map over `files` are commented out; the
\* dataset is the frames of [video_file], batched and prefetched.
_fetch_dataset(positional, keywords) ==
  IF missing_parameters(positional, keywords) # {}
  THEN NoDataset
  ELSE [samples |-> <<positional[4]>>, shuffled |-> FALSE, bound |-> TRUE]

LoadStart ==
  /\ load_pc = "call"
  /\ train_set = NoDataset
  /\ valid_set = NoDataset
  /\ test_set = NoDataset

LoadInit ==
  /\ dataset_class \in TrainingClasses \cup {"TEST"}
  /\ train_list \in SampleLists
  /\ valid_list \in SampleLists
  /\ \A i \in 1..Len(train_list), j \in 1..Len(valid_list) :
       train_list[i] # valid_list[j]
  /\ test_list_x \in SampleLists
  /\ video_file \in VideoFiles
  /\ LoadStart

LoadIdle ==
  /\ dataset_class = "none"
  /\ train_list = <<>>
  /\ valid_list = <<>>
  /\ test_list_x = <<>>
  /\ video_file = ""
  /\ LoadStart

\* SALICON / MIT1003 / CAT2000 .load_data once the lists are partitioned:
\* _fetch_dataset((train_list_x, train_list_y), self._target_size, True),
\* then the same for the validation lists with False (lines 54-65, 114-125,
\* 180-196).  The first call that raises ends load_data.
load_data ==
  /\ load_pc = "call"
  /\ dataset_class \in TrainingClasses
  /\ LET train == _fetch_dataset(<<train_list, "target_size", TRUE>>, {})
         valid == _fetch_dataset(<<valid_list, "target_size", FALSE>>, {})
     IN IF train.bound /\ valid.bound
        THEN /\ train_set' = train
             /\ valid_set' = valid
             /\ load_pc' = "returned"
        ELSE /\ UNCHANGED <<train_set, valid_set>>
             /\ load_pc' = "TypeError"
  /\ UNCHANGED <<dataset_class, train_list, valid_list, test_list_x,
                 video_file, test_set>>
  /\ UNCHANGED <<checkVars, partVars, geomVars, videoVars, fileVars>>

\* TEST.load_data, lines 215-220: _fetch_dataset(test_list_x,
\* self._target_size, False, self.video_file, online=True).
TEST_load_data ==
  /\ load_pc = "call"
  /\ dataset_class = "TEST"
  /\ LET fetched == _fetch_dataset(
                      <<test_list_x, "target_size", FALSE, video_file>>,
                      {"online"})
     IN IF fetched.bound
        THEN /\ test_set' = fetched
             /\ load_pc' = "returned"
        ELSE /\ UNCHANGED test_set
             /\ load_pc' = "TypeError"
  /\ UNCHANGED <<dataset_class, train_list, valid_list, test_list_x,
                 video_file, train_set, valid_set>>
  /\ UNCHANGED <<checkVars, partVars, geomVars, videoVars, fileVars>>

LoadNext == load_data \/ TEST_load_data

\* The dataset holds exactly the samples of the list: in list order when
\* not shuffled, in some order when shuffled.
HoldsSamples(dataset, list, shuffle) ==
  /\ dataset.bound
  /\ dataset.shuffled = shuffle
  /\ Len(dataset.samples) = Len(list)
  /\ Range(dataset.samples) = Range(list)
  /\ ~shuffle => dataset.samples = list

\* C17: load_data of SALICON, MIT1003 and CAT2000 returns (train_set,
\* valid_set) where train_set holds exactly the samples at the partition's
\* training indices, shuffled, and valid_set exactly those at the validation
\* indices, in input order: the dataset _fetch_dataset builds consists of the
\* files passed to it.
C17_LoadDataReturnsPartition ==
  (load_pc # "call" /\ dataset_class \in TrainingClasses) =>
    /\ load_pc = "returned"
    /\ HoldsSamples(train_set, train_list, TRUE)
    /\ HoldsSamples(valid_set, valid_list, FALSE)

\* What _fetch_dataset builds when its call binds: the frames of video_file,
\* unshuffled, whatever the files passed to it.
C17_FetchedFromVideoFile ==
  (load_pc # "call" /\ dataset_class = "TEST") =>
    /\ load_pc = "returned"
    /\ test_set = [samples |-> <<video_file>>, shuffled |-> FALSE,
                   bound |-> TRUE]

-----------------------------------------------------------------------------
(* Specifications                                                          *)

InitCheck == CheckInit /\ PartIdle /\ GeomIdle /\ VideoIdle /\ FilesIdle /\ LoadIdle
InitPart == PartInit /\ CheckIdle /\ GeomIdle /\ VideoIdle /\ FilesIdle /\ LoadIdle
InitGeom == GeomInit /\ CheckIdle /\ PartIdle /\ VideoIdle /\ FilesIdle /\ LoadIdle
InitVideo == VideoInit /\ CheckIdle /\ PartIdle /\ GeomIdle /\ FilesIdle /\ LoadIdle
InitFiles == FilesInit /\ CheckIdle /\ PartIdle /\ GeomIdle /\ VideoIdle /\ LoadIdle
InitHelper ==
  HelperInit /\ CheckIdle /\ PartIdle /\ VideoIdle /\ FilesIdle /\ LoadIdle
InitLoad ==
  LoadInit /\ CheckIdle /\ PartIdle /\ GeomIdle /\ VideoIdle /\ FilesIdle

SpecCheck == InitCheck /\ [][CheckNext]_vars
SpecPart == InitPart /\ [][PartNext]_vars
SpecGeom == InitGeom /\ [][GeomNext]_vars
SpecVideo == InitVideo /\ [][VideoNext]_vars
SpecFiles == InitFiles /\ [][FilesNext]_vars
SpecHelper == InitHelper /\ [][HelperNext]_vars
SpecLoad == InitLoad /\ [][LoadNext]_vars

=============================================================================
